---- MODULE Spec2Model ----
(***************************************************************************)
(* Model of the programs the tutorial notebooks contain:                   *)
(*  - the DeepSpeed inference scripts for summarization and translation    *)
(*    (DeepSpeed_Summarizing_Translating.ipynb): environment lookup with   *)
(*    defaults, int() conversion, pipeline(device=local_rank),             *)
(*    deepspeed.init_inference(mp_size=world_size);                        *)
(*  - the launch cells and the deepspeed.initialize call of the computer   *)
(*    vision notebook (DeepSpeed_Computer_Vision_Example.ipynb), with the  *)
(*    ZeRO stage read from the configuration file named on the command     *)
(*    line.                                                                *)
(* The ZeRO partitioning, gradient reduction and optimizer themselves are  *)
(* code of the DeepSpeed library and of the MPI runtime; the repository    *)
(* only calls them, so they are not part of this model.                    *)
(***************************************************************************)
EXTENDS Integers, Sequences, FiniteSets, TLC

(* ---------------------------------------------------------------------- *)
(* Bounds                                                                 *)
(* ---------------------------------------------------------------------- *)

\* longest environment-variable value enumerated
MaxEnvLen == 2

\* largest number of processes a launch cell is made to start
MaxProcs == 2

(* ---------------------------------------------------------------------- *)
(* Environment values and Python's int()                                  *)
(* ---------------------------------------------------------------------- *)

\* characters an enumerated environment value is made of
EnvChars == {"-", "0", "1", "2", "x"}

\* an environment variable that is not set (os.getenv then yields the default)
Unset == <<"unset">>

EnvStrings == UNION {[1..n -> EnvChars] : n \in 0..MaxEnvLen}

EnvValues == EnvStrings \cup {Unset}

EnvNames == {"LOCAL_RANK", "WORLD_SIZE"}

Digits == {"0", "1", "2", "3", "4", "5", "6", "7", "8", "9"}

DigitVal(c) ==
  CASE c = "0" -> 0 [] c = "1" -> 1 [] c = "2" -> 2 [] c = "3" -> 3
    [] c = "4" -> 4 [] c = "5" -> 5 [] c = "6" -> 6 [] c = "7" -> 7
    [] c = "8" -> 8 [] c = "9" -> 9

\* value of a sequence of decimal digits, most significant first
RECURSIVE DecVal(_)
DecVal(s) ==
  IF Len(s) = 0 THEN 0
  ELSE 10 * DecVal(SubSeq(s, 1, Len(s) - 1)) + DigitVal(s[Len(s)])

AllDigits(s) == Len(s) > 0 /\ \A i \in 1..Len(s) : s[i] \in Digits

\* Python's int(str): an optional sign, then at least one decimal digit;
\* anything else raises ValueError
PyInt(s) ==
  IF AllDigits(s) THEN [ok |-> TRUE, val |-> DecVal(s)]
  ELSE IF Len(s) > 1 /\ s[1] = "-" /\ AllDigits(Tail(s))
       THEN [ok |-> TRUE, val |-> 0 - DecVal(Tail(s))]
  ELSE [ok |-> FALSE, val |-> 0]

\* os.getenv(name, default)
GetEnv(e, name, default) == IF e[name] = Unset THEN default ELSE e[name]

DefaultLocalRank == <<"0">>

DefaultWorldSize == <<"4">>

(* ---------------------------------------------------------------------- *)
(* State                                                                  *)
(* ---------------------------------------------------------------------- *)

VARIABLES
  env,         \* the process environment of the inference script
  task,        \* the pipeline task of the script being run
  pc,          \* position of the inference script
  local_rank,  \* result of int(os.getenv('LOCAL_RANK', '0'))
  world_size,  \* result of int(os.getenv('WORLD_SIZE', '4'))
  device,      \* device argument given to pipeline(...)
  mp_size,     \* mp_size argument given to deepspeed.init_inference(...)
  launched     \* number of processes the launch cell started (--num_gpus)

vars == <<env, task, pc, local_rank, world_size, device, mp_size, launched>>

Tasks == {"summarization", "translation_en_to_fr"}

NoInt == [ok |-> FALSE, val |-> 0]

NoArg == [given |-> FALSE, val |-> 0]

Init ==
  /\ env \in [EnvNames -> EnvValues]
  /\ task \in Tasks
  /\ pc = "read_local_rank"
  /\ local_rank = NoInt
  /\ world_size = NoInt
  /\ device = NoArg
  /\ mp_size = NoArg
  /\ launched \in 1..MaxProcs

\* local_rank = int(os.getenv('LOCAL_RANK', '0'))
ReadLocalRank ==
  /\ pc = "read_local_rank"
  /\ local_rank' = PyInt(GetEnv(env, "LOCAL_RANK", DefaultLocalRank))
  /\ pc' = IF local_rank'.ok THEN "read_world_size" ELSE "ValueError"
  /\ UNCHANGED <<env, task, launched, world_size, device, mp_size>>

\* world_size = int(os.getenv('WORLD_SIZE', '4'))
ReadWorldSize ==
  /\ pc = "read_world_size"
  /\ world_size' = PyInt(GetEnv(env, "WORLD_SIZE", DefaultWorldSize))
  /\ pc' = IF world_size'.ok THEN "pipeline" ELSE "ValueError"
  /\ UNCHANGED <<env, task, launched, local_rank, device, mp_size>>

\* pipeline(task, model="t5-base", tokenizer="t5-base", device=local_rank)
BuildPipeline ==
  /\ pc = "pipeline"
  /\ device' = [given |-> TRUE, val |-> local_rank.val]
  /\ pc' = "init_inference"
  /\ UNCHANGED <<env, task, launched, local_rank, world_size, mp_size>>

\* a script that sizes model parallelism by the number of launched processes
InitInferenceByLaunch ==
  /\ pc = "init_inference"
  /\ mp_size' = [given |-> TRUE, val |-> launched]
  /\ pc' = "done"
  /\ UNCHANGED <<env, task, launched, local_rank, world_size, device>>

\* deepspeed.init_inference(model, mp_size=world_size, dtype=torch.float, ...)
InitInference ==
  /\ pc = "init_inference"
  /\ mp_size' = [given |-> TRUE, val |-> world_size.val]
  /\ pc' = "done"
  /\ UNCHANGED <<env, task, launched, local_rank, world_size, device>>

Next ==
  \/ ReadLocalRank
  \/ ReadWorldSize
  \/ BuildPipeline
  \/ InitInference

Spec == Init /\ [][Next]_vars

TypeOK ==
  /\ env \in [EnvNames -> EnvValues]
  /\ task \in Tasks
  /\ pc \in {"read_local_rank", "read_world_size", "pipeline",
             "init_inference", "done", "ValueError"}
  /\ local_rank \in [ok : BOOLEAN, val : Int]
  /\ world_size \in [ok : BOOLEAN, val : Int]
  /\ device \in [given : BOOLEAN, val : Int]
  /\ mp_size \in [given : BOOLEAN, val : Int]
  /\ launched \in 1..MaxProcs

(* ---------------------------------------------------------------------- *)
(* Claims                                                                 *)
(* ---------------------------------------------------------------------- *)

\* the script has assigned local_rank
PastLocalRank == pc \in {"read_world_size", "pipeline", "init_inference", "done"}

\* the script has assigned world_size
PastWorldSize == pc \in {"pipeline", "init_inference", "done"}

\* C19: in both inference scripts local_rank is the integer read from
\* LOCAL_RANK (0 when the variable is unset) and world_size the integer read
\* from WORLD_SIZE (4 when unset); the pipeline is given device = local_rank
\* and deepspeed.init_inference is given mp_size = world_size, whatever
\* number of processes the launch cell started.
C19_InferenceArguments ==
  /\ PastLocalRank =>
       /\ local_rank.ok
       /\ local_rank.val = IF env["LOCAL_RANK"] = Unset THEN 0
                           ELSE PyInt(env["LOCAL_RANK"]).val
  /\ PastWorldSize =>
       /\ world_size.ok
       /\ world_size.val = IF env["WORLD_SIZE"] = Unset THEN 4
                           ELSE PyInt(env["WORLD_SIZE"]).val
  /\ device.given => device.val = local_rank.val
  /\ mp_size.given => mp_size.val = world_size.val
  /\ pc = "done" => device.given /\ mp_size.given

\* the translation script ran to the end with WORLD_SIZE unset and LOCAL_RANK
\* set to "1": the pipeline is on device 1 and mp_size is the default 4
\* although a single process was launched
C19_Witness ==
  /\ pc = "done"
  /\ task = "translation_en_to_fr"
  /\ env["WORLD_SIZE"] = Unset
  /\ env["LOCAL_RANK"] = <<"1">>
  /\ device = [given |-> TRUE, val |-> 1]
  /\ mp_size = [given |-> TRUE, val |-> 4]
  /\ launched = 1

====
